---- MODULE Spec2Model ----
(***************************************************************************)
(* Model of target_stitch_petlove/__init__.py: the Singer target that      *)
(* reads SCHEMA / RECORD / STATE lines, validates records, batches them,   *)
(* posts each batch to the Stitch import API and finally emits the last    *)
(* checkpoint on standard output.                                          *)
(*                                                                         *)
(* pc is the position of the single thread:                                *)
(*   "loop"     at the head of `for line in lines` (line 48)               *)
(*   "check"    at the threshold test after the dispatch (line 98)         *)
(*   "returned" persist_lines has returned, main is about to emit_state    *)
(*   "done"     main has finished                                          *)
(*   "error"    an exception left persist_lines; main does not catch it    *)
(***************************************************************************)
EXTENDS Integers, Sequences, FiniteSets, TLC

\* ---------------------------------------------------------------- bounds
MaxLines == 4        \* longest input (number of lines) explored
MaxBatchSize == 2    \* configured batch_size ranges over 0..MaxBatchSize
MaxTick == 1         \* seconds the clock may advance between two readings

\* ------------------------------------------------------- abstract values
ABSENT == "absent"   \* a key that is not in a dict / a dict without the key
None == "None"       \* Python None
UNBOUND == "unbound" \* a local variable that has not been assigned yet

Streams == {"users", "orders"}
Schemas == {"sA", "sB"}          \* two schema documents
\* a document that is not a valid Draft 4 schema, e.g. {"minimum": "x"}
InvalidSchemas == {"sBad"}
Payloads == {"r1", "r2"}         \* two record payloads
KeyProps == {"id"}
TableName == "tbl"               \* config.get("table_name", "")

\* JSON texts a STATE line may carry as its value
StateTexts == {"null", "{\"bookmark\": 1}", "{\"bookmark\": 2}"}

\* json.loads on the value of a STATE line: JSON null becomes None, an
\* object becomes a dict (named here b1, b2).
json_loads(text) ==
  CASE text = "null" -> None
    [] text = "{\"bookmark\": 1}" -> "b1"
    [] text = "{\"bookmark\": 2}" -> "b2"

\* json.dumps of a held checkpoint value.
json_dumps(v) ==
  CASE v = None -> "null"
    [] v = "b1" -> "{\"bookmark\": 1}"
    [] v = "b2" -> "{\"bookmark\": 2}"

\* Draft4Validator(schema): the compiled validator remembers its schema.
\* The constructor stores the document; it does not check it (check_schema
\* is never called), so it succeeds on an invalid document too.
Draft4Validator(sch) == [compiled |-> sch]

\* validator.validate(record): TRUE when no ValidationError is raised.
\* Schema sA accepts both payloads, schema sB accepts only r1. The invalid
\* document sBad lets r1 through (its broken keyword does not apply to r1)
\* and raises on r2.
validate(validator, rec) ==
  CASE validator.compiled = "sA" -> rec \in {"r1", "r2"}
    [] validator.compiled = "sB" -> rec \in {"r1"}
    [] validator.compiled = "sBad" -> rec \in {"r1"}

\* ------------------------------------------------------------ input lines
Msg(p, t, s, sch, kp, rec, val) ==
  [parses |-> p, type |-> t, stream |-> s, schema |-> sch,
   key_properties |-> kp, record |-> rec, value |-> val]

MalformedLines == {Msg(FALSE, ABSENT, ABSENT, ABSENT, ABSENT, ABSENT, ABSENT)}
NoTypeLines == {Msg(TRUE, ABSENT, ABSENT, ABSENT, ABSENT, ABSENT, ABSENT)}
UnknownTypeLines ==
  {Msg(TRUE, "ACTIVATE_VERSION", "users", ABSENT, ABSENT, ABSENT, ABSENT)}
StateLines ==
  {Msg(TRUE, "STATE", ABSENT, ABSENT, ABSENT, ABSENT, v) :
     v \in StateTexts \cup {ABSENT}}
SchemaLines ==
  {Msg(TRUE, "SCHEMA", s, sch, kp, ABSENT, ABSENT) :
     s \in Streams, sch \in Schemas, kp \in KeyProps}
  \cup {Msg(TRUE, "SCHEMA", ABSENT, "sA", "id", ABSENT, ABSENT),
        Msg(TRUE, "SCHEMA", "users", "sA", ABSENT, ABSENT, ABSENT)}
  \cup {Msg(TRUE, "SCHEMA", "users", sch, "id", ABSENT, ABSENT) :
          sch \in InvalidSchemas}
RecordLines ==
  {Msg(TRUE, "RECORD", s, ABSENT, ABSENT, r, ABSENT) :
     s \in Streams, r \in Payloads}
  \cup {Msg(TRUE, "RECORD", ABSENT, ABSENT, ABSENT, "r1", ABSENT),
        Msg(TRUE, "RECORD", "users", ABSENT, ABSENT, ABSENT, ABSENT)}
BadLines == MalformedLines \cup NoTypeLines \cup UnknownTypeLines

\* What the HTTP exchange of one post_data call can do: a 2xx response, a
\* non-2xx response, or a transport failure that raises (refused, timeout).
Responses == {"2xx", "non2xx", "fail"}

VARIABLES
  pc,                           \* position of the thread (see above)
  error,                        \* the exception that ended the run, or None
  lines_read,                   \* the input lines consumed so far
  state,                        \* persist_lines: state
  schemas,                      \* persist_lines: schemas
  key_properties,               \* persist_lines: key_properties
  validators,                   \* persist_lines: validators
  schema,                       \* persist_lines: local schema (line 66)
  max_batch_size,               \* persist_lines: max_batch_size
  batch_size,                   \* persist_lines: batch_size
  number_of_the_current_batch,  \* persist_lines: number_of_the_current_batch
  messages,                     \* persist_lines: messages
  timestamp,                    \* persist_lines: timestamp
  submissions,                  \* the post_data calls made, in order
  stdout                        \* what has been written to sys.stdout

vars == <<pc, error, lines_read, state, schemas, key_properties, validators,
          schema, max_batch_size, batch_size, number_of_the_current_batch,
          messages, timestamp, submissions, stdout>>

registry == <<schemas, key_properties, validators>>
accumulator == <<batch_size, messages, timestamp, number_of_the_current_batch>>

Init ==
  /\ pc = "loop"
  /\ error = None
  /\ lines_read = <<>>
  /\ state = None
  /\ schemas = [s \in Streams |-> ABSENT]
  /\ key_properties = [s \in Streams |-> ABSENT]
  /\ validators = [s \in Streams |-> ABSENT]
  /\ schema = UNBOUND
  /\ max_batch_size \in 0..MaxBatchSize
  /\ batch_size = 0
  /\ number_of_the_current_batch = 1
  /\ messages = <<>>
  /\ timestamp = 0
  /\ submissions = <<>>
  /\ stdout = <<>>

\* ------------------------------------------------------------- emit_state
StateLine(text) == [writer |-> "emit_state", text |-> text, n |-> 0]

emit_state(out, st) ==
  IF st # None THEN Append(out, StateLine(json_dumps(st))) ELSE out

\* -------------------------------------------------------------- post_data
\* print(response.read().decode()) writes the response body to sys.stdout;
\* a transport failure raises before anything is printed.
ResponseLine(resp) == [writer |-> "post_data", text |-> resp, n |-> 0]

post_data_stdout(out, resp) ==
  IF resp = "fail" THEN out ELSE Append(out, ResponseLine(resp))

\* An envelope that loses the oldest pending operation.
EnvelopeDroppingFirst(sch, msgs) ==
  [schema |-> sch, table_name |-> TableName, messages |-> Tail(msgs)]

Envelope(sch, msgs) ==
  [schema |-> sch, table_name |-> TableName, messages |-> msgs]

post_data_log(log, data, resp) ==
  Append(log, [data |-> data, response |-> resp])

\* print("SENDING BATCH: " + str(number_of_the_current_batch))
SendingLine(n) == [writer |-> "print", text |-> "SENDING BATCH: ", n |-> n]

\* ------------------------------------------------------ raising an error
\* An error handler that flushes the pending batch before aborting.
RaiseFlushing(kind) ==
  /\ pc' = "error"
  /\ error' = kind
  /\ submissions' =
       IF Len(messages) > 0
         THEN post_data_log(submissions, Envelope(schema, messages), "2xx")
         ELSE submissions
  /\ UNCHANGED <<state, max_batch_size, accumulator, stdout>>

\* An error handler that emits the held checkpoint before aborting.
RaiseEmitting(kind) ==
  /\ pc' = "error"
  /\ error' = kind
  /\ stdout' = emit_state(stdout, state)
  /\ UNCHANGED <<state, max_batch_size, accumulator, submissions>>

\* An exception leaves persist_lines and main: nothing is flushed, nothing
\* is emitted.
Raise(kind) ==
  /\ pc' = "error"
  /\ error' = kind
  /\ UNCHANGED <<state, max_batch_size, accumulator, submissions, stdout>>

Continue ==
  /\ pc' = "check"
  /\ error' = error
  /\ UNCHANGED <<max_batch_size, submissions, stdout>>

\* ------------------------------------------------- the dispatch, per line
Consume(o) ==
  /\ pc = "loop"
  /\ Len(lines_read) < MaxLines
  /\ lines_read' = Append(lines_read, o)

\* json.loads fails, 'type' is missing, or the type is unknown.
ReadBad(o) ==
  /\ Consume(o)
  /\ o \in BadLines
  /\ IF ~o.parses THEN Raise("JSONDecodeError")
     ELSE IF o.type = ABSENT THEN Raise("MissingType")
     ELSE Raise("UnknownType")
  /\ UNCHANGED <<registry, schema>>

\* line 81 left out: the held checkpoint survives an accepted record
StateAfterRecordKept == state

\* state after an accepted record (line 81)
StateAfterRecord == None

\* line 76 without the counter: every record of a window gets the base
SequenceIgnoringCount(ts, n) == ts

\* sequence given to the record appended as number n of the window (line 76)
Sequence(ts, n) == ts + n

\* Lines 65..81 with validation moved after the append (a record that fails
\* validation has already changed the accumulator when the run aborts).
AcceptOrRejectValidateLate(o) ==
  /\ schema' = schemas[o.stream]
  /\ IF o.record = ABSENT
       THEN Raise("KeyError")
     ELSE /\ batch_size' = batch_size + 1
          /\ messages' = Append(messages,
                [action |-> "upsert", data |-> o.record,
                 sequence |-> Sequence(timestamp, batch_size + 1)])
          /\ state' = StateAfterRecord
          /\ UNCHANGED <<timestamp, number_of_the_current_batch,
                         max_batch_size, submissions, stdout>>
          /\ IF ~validate(validators[o.stream], o.record)
               THEN pc' = "error" /\ error' = "ValidationError"
               ELSE pc' = "check" /\ error' = error

\* Lines 65..81: a RECORD of a declared stream is validated, then appended.
AcceptOrReject(o) ==
  /\ schema' = schemas[o.stream]
  /\ IF o.record = ABSENT
       THEN Raise("KeyError")
     ELSE IF ~validate(validators[o.stream], o.record)
       THEN Raise("ValidationError")
     ELSE /\ batch_size' = batch_size + 1
          /\ messages' = Append(messages,
                [action |-> "upsert", data |-> o.record,
                 sequence |-> Sequence(timestamp, batch_size + 1)])
          /\ state' = StateAfterRecord
          /\ UNCHANGED <<timestamp, number_of_the_current_batch>>
          /\ Continue

\* Lines 59..81 with a record of an undeclared stream skipped silently.
ReadRecordSkipUndeclared(o) ==
  /\ Consume(o)
  /\ o \in RecordLines
  /\ UNCHANGED registry
  /\ IF o.stream = ABSENT
       THEN Raise("MissingStream") /\ UNCHANGED schema
     ELSE IF schemas[o.stream] = ABSENT
       THEN Continue /\ UNCHANGED <<state, accumulator, schema>>
     ELSE AcceptOrReject(o)

ReadRecord(o) ==
  /\ Consume(o)
  /\ o \in RecordLines
  /\ UNCHANGED registry
  /\ IF o.stream = ABSENT
       THEN Raise("MissingStream") /\ UNCHANGED schema
     ELSE IF schemas[o.stream] = ABSENT
       THEN Raise("SchemaNotDeclared") /\ UNCHANGED schema
     ELSE AcceptOrReject(o)

ReadState(o) ==
  /\ Consume(o)
  /\ o \in StateLines
  /\ UNCHANGED <<registry, schema>>
  /\ IF o.value = ABSENT
       THEN Raise("KeyError")
     ELSE /\ state' = json_loads(o.value)
          /\ UNCHANGED accumulator
          /\ Continue

\* Lines 85..93 where the declaration is also bound to the local `schema`
\* that the flush sends.
ReadSchemaRebindingLocal(o) ==
  /\ Consume(o)
  /\ o \in SchemaLines
  /\ IF o.stream = ABSENT
       THEN Raise("MissingStream") /\ UNCHANGED <<registry, schema>>
     ELSE /\ schemas' = [schemas EXCEPT ![o.stream] = o.schema]
          /\ schema' = o.schema
          /\ validators' =
               [validators EXCEPT ![o.stream] = Draft4Validator(o.schema)]
          /\ IF o.key_properties = ABSENT
               THEN Raise("MissingKeyProperties") /\ UNCHANGED key_properties
             ELSE /\ key_properties' =
                       [key_properties EXCEPT ![o.stream] = o.key_properties]
                  /\ UNCHANGED <<state, accumulator>>
                  /\ Continue

\* Lines 85..93 where a stream that already has a validator keeps it.
ReadSchemaKeepingValidator(o) ==
  /\ Consume(o)
  /\ o \in SchemaLines
  /\ UNCHANGED schema
  /\ IF o.stream = ABSENT
       THEN Raise("MissingStream") /\ UNCHANGED registry
     ELSE /\ schemas' = [schemas EXCEPT ![o.stream] = o.schema]
          /\ validators' =
               IF schemas[o.stream] = ABSENT
                 THEN [validators EXCEPT
                         ![o.stream] = Draft4Validator(o.schema)]
                 ELSE validators
          /\ IF o.key_properties = ABSENT
               THEN Raise("MissingKeyProperties") /\ UNCHANGED key_properties
             ELSE /\ key_properties' =
                       [key_properties EXCEPT ![o.stream] = o.key_properties]
                  /\ UNCHANGED <<state, accumulator>>
                  /\ Continue

ReadSchema(o) ==
  /\ Consume(o)
  /\ o \in SchemaLines
  /\ UNCHANGED schema
  /\ IF o.stream = ABSENT
       THEN Raise("MissingStream") /\ UNCHANGED registry
     ELSE /\ schemas' = [schemas EXCEPT ![o.stream] = o.schema]
          /\ validators' =
               [validators EXCEPT ![o.stream] = Draft4Validator(o.schema)]
          /\ IF o.key_properties = ABSENT
               THEN Raise("MissingKeyProperties") /\ UNCHANGED key_properties
             ELSE /\ key_properties' =
                       [key_properties EXCEPT ![o.stream] = o.key_properties]
                  /\ UNCHANGED <<state, accumulator>>
                  /\ Continue

\* ---------------------------------------------- threshold test (98..105)
\* line 98 with >= : a flush as soon as the threshold is reached
ShouldFlushAtThreshold(n, max) == n >= max

ShouldFlush(n, max) == n > max

ThresholdPass ==
  /\ pc = "check"
  /\ ~ShouldFlush(batch_size, max_batch_size)
  /\ pc' = "loop"
  /\ UNCHANGED <<error, lines_read, state, registry, schema, max_batch_size,
                 accumulator, submissions, stdout>>

\* Lines 98..105 without line 105: the counter survives the flush.
ThresholdFlushKeepingCount(resp, dt) ==
  /\ pc = "check"
  /\ ShouldFlush(batch_size, max_batch_size)
  /\ submissions' = post_data_log(submissions, Envelope(schema, messages), resp)
  /\ stdout' = post_data_stdout(
                 Append(stdout, SendingLine(number_of_the_current_batch)), resp)
  /\ IF resp = "fail"
       THEN /\ pc' = "error"
            /\ error' = "TransportError"
            /\ UNCHANGED accumulator
       ELSE /\ pc' = "loop"
            /\ error' = error
            /\ messages' = <<>>
            /\ timestamp' = timestamp + dt
            /\ number_of_the_current_batch' = number_of_the_current_batch + 1
            /\ batch_size' = batch_size
  /\ UNCHANGED <<lines_read, state, registry, schema, max_batch_size>>

ThresholdFlush(resp, dt) ==
  /\ pc = "check"
  /\ ShouldFlush(batch_size, max_batch_size)
  /\ submissions' = post_data_log(submissions, Envelope(schema, messages), resp)
  /\ stdout' = post_data_stdout(
                 Append(stdout, SendingLine(number_of_the_current_batch)), resp)
  /\ IF resp = "fail"
       THEN /\ pc' = "error"
            /\ error' = "TransportError"
            /\ UNCHANGED accumulator
       ELSE /\ pc' = "loop"
            /\ error' = error
            /\ messages' = <<>>
            /\ timestamp' = timestamp + dt
            /\ number_of_the_current_batch' = number_of_the_current_batch + 1
            /\ batch_size' = 0
  /\ UNCHANGED <<lines_read, state, registry, schema, max_batch_size>>

\* ------------------------------------------ end of input (lines 107..111)
\* line 107 left out together with the flush it guards
FinalFlushNever(msgs) == FALSE

\* line 107 as a threshold: a single remaining operation is not flushed
FinalFlushIfSeveral(msgs) == Len(msgs) > 1

FinalFlushNeeded(msgs) == Len(msgs) > 0

EndOfInput(resp) ==
  /\ pc = "loop"
  /\ IF FinalFlushNeeded(messages)
       THEN /\ submissions' =
                 post_data_log(submissions, Envelope(schema, messages), resp)
            /\ stdout' = post_data_stdout(stdout, resp)
            /\ IF resp = "fail"
                 THEN pc' = "error" /\ error' = "TransportError"
                 ELSE pc' = "returned" /\ error' = error
       ELSE /\ resp = "2xx"
            /\ pc' = "returned"
            /\ UNCHANGED <<error, submissions, stdout>>
  /\ UNCHANGED <<lines_read, state, registry, schema, max_batch_size,
                 accumulator>>

\* ------------------------------------------------- main, lines 167..170
EmitState ==
  /\ pc = "returned"
  /\ stdout' = emit_state(stdout, state)
  /\ pc' = "done"
  /\ UNCHANGED <<error, lines_read, state, registry, schema, max_batch_size,
                 accumulator, submissions>>

Next ==
  \/ \E o \in BadLines : ReadBad(o)
  \/ \E o \in RecordLines : ReadRecord(o)
  \/ \E o \in StateLines : ReadState(o)
  \/ \E o \in SchemaLines : ReadSchema(o)
  \/ ThresholdPass
  \/ \E resp \in Responses, dt \in 0..MaxTick : ThresholdFlush(resp, dt)
  \/ \E resp \in Responses : EndOfInput(resp)
  \/ EmitState

Spec == Init /\ [][Next]_vars

\* =================================================== history operators
Last(seq) == seq[Len(seq)]
Front(seq) == SubSeq(seq, 1, Len(seq) - 1)

\* JSON text of the checkpoint the input asks for: the value of the last
\* STATE line when no RECORD line follows it, "null" otherwise.
RECURSIVE ExpectedCheckpoint(_)
ExpectedCheckpoint(lines) ==
  IF lines = <<>> THEN "null"
  ELSE IF Last(lines).type = "RECORD" THEN "null"
  ELSE IF Last(lines).type = "STATE" THEN Last(lines).value
  ELSE ExpectedCheckpoint(Front(lines))

\* Schema of the last SCHEMA line for stream s in lines, ABSENT if none.
RECURSIVE LastSchemaFor(_, _)
LastSchemaFor(lines, s) ==
  IF lines = <<>> THEN ABSENT
  ELSE IF Last(lines).type = "SCHEMA" /\ Last(lines).stream = s
    THEN Last(lines).schema
  ELSE LastSchemaFor(Front(lines), s)

\* Payloads of the RECORD lines of the input, in arrival order.
RECURSIVE RecordPayloads(_)
RecordPayloads(lines) ==
  IF lines = <<>> THEN <<>>
  ELSE IF Last(lines).type = "RECORD"
    THEN Append(RecordPayloads(Front(lines)), Last(lines).record)
  ELSE RecordPayloads(Front(lines))

\* Payloads handed to post_data so far, in submission order.
RECURSIVE SubmittedPayloads(_)
SubmittedPayloads(log) ==
  IF log = <<>> THEN <<>>
  ELSE SubmittedPayloads(Front(log)) \o
       [i \in 1..Len(Last(log).data.messages) |->
          Last(log).data.messages[i].data]

IsStateLine(l) == l.writer = "emit_state"
EmittedStates == SelectSeq(stdout, IsStateLine)
HasEmitted == EmittedStates # <<>>

\* The step just taken read one more input line.
ReadsLine == pc = "loop" /\ Len(lines_read') = Len(lines_read) + 1
\* The step just taken is the end of the input: the loop is left.
EndsInput == pc = "loop" /\ lines_read' = lines_read /\ pc' # "loop"

\* ================================================================ claims

\* C1: on a run that completes without error, emit_state writes the value
\* of the last STATE line when no RECORD line follows it, and writes nothing
\* when a RECORD follows the last STATE, when there is no STATE, or when
\* that value is null.
C1_CheckpointIsLastState ==
  pc = "done" =>
    IF ExpectedCheckpoint(lines_read) = "null"
      THEN EmittedStates = <<>>
      ELSE EmittedStates = <<StateLine(ExpectedCheckpoint(lines_read))>>

C1_Witness ==
  /\ pc = "done"
  /\ Len(lines_read) = 4
  /\ lines_read[2].type = "RECORD"
  /\ lines_read[3].type = "STATE" /\ lines_read[3].value = "{\"bookmark\": 1}"
  /\ lines_read[4].type = "STATE" /\ lines_read[4].value = "{\"bookmark\": 2}"
  /\ EmittedStates = <<StateLine("{\"bookmark\": 2}")>>

C3_Original ==
  /\ (pc = "check" /\ Last(lines_read).type = "RECORD") =>
        (Len(messages) <= max_batch_size /\ batch_size <= max_batch_size)
  /\ pc = "loop" => batch_size <= max_batch_size

\* C4: batch_size = 1, one SCHEMA then two valid RECORDs of that stream and
\* no STATE: two submissions of one operation each, no checkpoint emitted.
C4_Original ==
  ( /\ pc = "done"
    /\ max_batch_size = 1
    /\ Len(lines_read) = 3
    /\ lines_read[1].type = "SCHEMA"
    /\ lines_read[2].type = "RECORD"
    /\ lines_read[3].type = "RECORD" ) =>
  ( /\ Len(submissions) = 2
    /\ \A i \in 1..Len(submissions) : Len(submissions[i].data.messages) = 1
    /\ EmittedStates = <<>> )

\* C5: a RECORD whose stream has no earlier SCHEMA line aborts the run with
\* the schema-not-declared error: it is not appended, not skipped, and no
\* submission is made for it or after it.
C5_UndeclaredStreamAborts ==
  [][ /\ ( /\ ReadsLine
           /\ Last(lines_read').type = "RECORD"
           /\ Last(lines_read').stream # ABSENT
           /\ LastSchemaFor(lines_read, Last(lines_read').stream) = ABSENT )
         => ( /\ pc' = "error"
              /\ error' = "SchemaNotDeclared"
              /\ messages' = messages
              /\ batch_size' = batch_size
              /\ submissions' = submissions )
      /\ (pc = "error" /\ error = "SchemaNotDeclared") =>
            (pc' = "error" /\ submissions' = submissions)
    ]_vars

C5_Witness ==
  /\ pc = "error"
  /\ error = "SchemaNotDeclared"
  /\ Last(lines_read).stream = "orders"
  /\ LastSchemaFor(lines_read, "users") # ABSENT
  /\ messages # <<>>

\* C6: a RECORD that fails validation against the validator currently
\* registered for its stream aborts the run with batch_size, messages and
\* the held checkpoint exactly as before the line, and is never submitted.
C6_InvalidRecordLeavesAccumulator ==
  [][ /\ ( /\ ReadsLine
           /\ Last(lines_read').type = "RECORD"
           /\ Last(lines_read').stream # ABSENT
           /\ Last(lines_read').record # ABSENT
           /\ LastSchemaFor(lines_read, Last(lines_read').stream) # ABSENT
           /\ ~validate(
                 Draft4Validator(
                   LastSchemaFor(lines_read, Last(lines_read').stream)),
                 Last(lines_read').record) )
         => ( /\ pc' = "error"
              /\ error' = "ValidationError"
              /\ batch_size' = batch_size
              /\ messages' = messages
              /\ state' = state
              /\ submissions' = submissions )
      /\ (pc = "error" /\ error = "ValidationError") =>
            (pc' = "error" /\ submissions' = submissions)
    ]_vars

C6_Witness ==
  /\ pc = "error"
  /\ error = "ValidationError"
  /\ messages # <<>>
  /\ state # None

\* C7: at the end of the input, a non-empty accumulator gives exactly one
\* more submission, which carries all pending operations whatever their
\* number; an empty accumulator gives none; nothing is submitted later.
C7_FinalFlush ==
  [][ /\ EndsInput =>
           IF messages # <<>>
             THEN /\ Len(submissions') = Len(submissions) + 1
                  /\ Front(submissions') = submissions
                  /\ Last(submissions').data.messages = messages
             ELSE submissions' = submissions
      /\ pc \in {"returned", "done"} => submissions' = submissions
    ]_vars

C7_Witness ==
  /\ pc = "done"
  /\ max_batch_size = 2
  /\ Len(submissions) = 1
  /\ Len(submissions[1].data.messages) = 1

\* C8: once a fatal error is raised while a line is processed, no
\* submission happens: the records pending at that point are never handed
\* to post_data.
C8_NoSubmissionAfterError ==
  [][ /\ (ReadsLine /\ pc' = "error") => submissions' = submissions
      /\ pc = "error" => (pc' = "error" /\ submissions' = submissions)
    ]_vars

C8_Witness ==
  /\ pc = "error"
  /\ error = "UnknownType"
  /\ Len(messages) = 2
  /\ submissions = <<>>

\* C9: a run that ends in a fatal error writes no checkpoint to standard
\* output, also when a STATE value is held when it aborts.
C9_NoCheckpointOnError ==
  pc = "error" => EmittedStates = <<>>

C9_Witness ==
  /\ pc = "error"
  /\ state # None
  /\ error = "JSONDecodeError"

\* C10: standard output receives at most one line, written at process end
\* by emit_state; flushes and submissions write nothing to it.
C10_Original ==
  /\ Len(stdout) <= 1
  /\ \A i \in 1..Len(stdout) : stdout[i].writer = "emit_state"
  /\ stdout # <<>> => pc = "done"

\* ------------------------------------------ history operators, continued
\* Operations handed to post_data so far, in submission order.
RECURSIVE SubmittedOps(_)
SubmittedOps(log) ==
  IF log = <<>> THEN <<>>
  ELSE SubmittedOps(Front(log)) \o Last(log).data.messages

\* The messages list has been handed to post_data without being cleared:
\* after the end-of-input flush, or when a post_data call raised.
Handed ==
  \/ pc \in {"returned", "done"}
  \/ pc = "error" /\ error = "TransportError"

PendingOps == IF Handed THEN <<>> ELSE messages
AcceptedOps == SubmittedOps(submissions) \o PendingOps

\* Payloads of the RECORD lines accepted so far: every RECORD line read,
\* except the one whose processing raised.
AcceptedPayloads ==
  IF /\ pc = "error" /\ error # "TransportError"
     /\ lines_read # <<>> /\ Last(lines_read).type = "RECORD"
    THEN Front(RecordPayloads(lines_read))
    ELSE RecordPayloads(lines_read)

StrictlyIncreasing(ops) ==
  \A i, j \in 1..Len(ops) : i < j => ops[i].sequence < ops[j].sequence

\* key_properties of the last SCHEMA line for stream s, ABSENT if none.
RECURSIVE LastKeyPropsFor(_, _)
LastKeyPropsFor(lines, s) ==
  IF lines = <<>> THEN ABSENT
  ELSE IF Last(lines).type = "SCHEMA" /\ Last(lines).stream = s
    THEN Last(lines).key_properties
  ELSE LastKeyPropsFor(Front(lines), s)

\* Index of the last RECORD line, 0 if none.
RECURSIVE LastRecordIndex(_)
LastRecordIndex(lines) ==
  IF lines = <<>> THEN 0
  ELSE IF Last(lines).type = "RECORD" THEN Len(lines)
  ELSE LastRecordIndex(Front(lines))

\* Schema declared for the stream of the last RECORD line when it was read.
SchemaOfLastRecord(lines) ==
  LastSchemaFor(SubSeq(lines, 1, LastRecordIndex(lines) - 1),
                lines[LastRecordIndex(lines)].stream)

\* The step just taken read a line of type t.
LineStep(t) == ReadsLine /\ Last(lines_read').type = t
\* The step just taken handed a batch to post_data.
Submits == Len(submissions') > Len(submissions)

\* ---------------------------------------------------- claims, continued

\* C11: a submission answered with a non-2xx response aborts the run: it is
\* the last thing the run does, no further line is processed, the batch is
\* not treated as sent and no checkpoint is emitted.
C11_Original ==
  \A i \in 1..Len(submissions) :
    submissions[i].response # "2xx" =>
      /\ pc = "error"
      /\ i = Len(submissions)
      /\ EmittedStates = <<>>

\* C12: within one batch window the sequence numbers of the accepted
\* records are strictly increasing in arrival order, hence distinct; this
\* holds of the pending window and of every window that was submitted.
C12_WindowSequencesIncrease ==
  /\ StrictlyIncreasing(messages)
  /\ \A i \in 1..Len(submissions) :
       StrictlyIncreasing(submissions[i].data.messages)

C12_Witness ==
  /\ submissions # <<>>
  /\ Len(submissions[1].data.messages) = 3
  /\ submissions[1].data.messages[3].sequence = 3

\* C13: over the whole run, across flushes, every accepted record has a
\* sequence number greater than those of all records accepted before it.
C13_Original == StrictlyIncreasing(AcceptedOps)

\* C14: a SCHEMA line whose schema document is structurally invalid aborts
\* the run when it is read: it is the last line processed.
C14_Original ==
  \A i \in 1..Len(lines_read) :
    (lines_read[i].type = "SCHEMA" /\ lines_read[i].schema \in InvalidSchemas)
      => (pc = "error" /\ i = Len(lines_read))

\* C15: the schema field of every submitted envelope is the schema that was
\* registered for the stream of the batch's last record when that record
\* was processed, whatever SCHEMA lines arrived afterwards.
C15_EnvelopeSchemaOfLastRecord ==
  [][Submits =>
       Last(submissions').data.schema = SchemaOfLastRecord(lines_read)]_vars

C15_Witness ==
  /\ pc = "done"
  /\ Len(submissions) = 1
  /\ submissions[1].data.schema = "sA"
  /\ schemas["users"] = "sB"
  /\ schemas["orders"] = "sB"
  /\ lines_read[LastRecordIndex(lines_read)].stream = "users"

\* C16: at every point of the run the operations handed to post_data, in
\* submission order, followed by the pending ones are exactly the accepted
\* RECORD payloads in arrival order, each once; on a completed run nothing
\* is pending, so the submissions alone are the accepted records.
C16_SubmittedThenPendingIsAccepted ==
  /\ [i \in 1..Len(AcceptedOps) |-> AcceptedOps[i].data] = AcceptedPayloads
  /\ pc = "done" => SubmittedPayloads(submissions) = AcceptedPayloads

C16_Witness ==
  /\ pc = "done"
  /\ Len(submissions) = 2
  /\ AcceptedPayloads = <<"r1", "r2", "r1">>

\* The frame of STATE and SCHEMA lines: a STATE line changes only the held
\* checkpoint, a SCHEMA line changes only the registry entries of its own
\* stream, and the threshold test that follows either makes no flush.
FrameOfStateAndSchema ==
  /\ LineStep("STATE") =>
       /\ UNCHANGED <<accumulator, registry, submissions>>
       /\ pc' = "check" => state' = json_loads(Last(lines_read').value)
  /\ LineStep("SCHEMA") =>
       /\ UNCHANGED <<state, accumulator, submissions>>
       /\ \A t \in Streams :
            t # Last(lines_read').stream =>
              /\ schemas'[t] = schemas[t]
              /\ validators'[t] = validators[t]
              /\ key_properties'[t] = key_properties[t]
  /\ (pc = "check" /\ Last(lines_read).type \in {"STATE", "SCHEMA"}) =>
       /\ pc' = "loop"
       /\ UNCHANGED <<state, accumulator, registry, submissions>>
  /\ state' # state => (LineStep("STATE") \/ LineStep("RECORD"))

\* C17 (as stated): the frame above, and the held checkpoint goes from a
\* value to none only on an accepted RECORD.
C17_Original ==
  [][ /\ FrameOfStateAndSchema
      /\ (state # None /\ state' = None) =>
            (LineStep("RECORD") /\ pc' = "check")
    ]_vars

\* C17 (amended): the frame above, and the held checkpoint goes from a value
\* to none only on an accepted RECORD or on a STATE line whose value is
\* null.
C17_FrameAndReset ==
  [][ /\ FrameOfStateAndSchema
      /\ (state # None /\ state' = None) =>
            \/ LineStep("RECORD") /\ pc' = "check"
            \/ LineStep("STATE") /\ Last(lines_read').value = "null"
    ]_vars

C17_Witness ==
  /\ pc = "loop"
  /\ Len(lines_read) = 4
  /\ lines_read[3].type = "STATE" /\ lines_read[3].value = "{\"bookmark\": 1}"
  /\ lines_read[4].type = "STATE" /\ lines_read[4].value = "null"
  /\ state = None
  /\ Len(messages) = 1
  /\ submissions = <<>>

\* C18: the registry changes only on a SCHEMA line, after which the entry of
\* every stream is exactly its newest declaration (schema, validator and
\* key properties, nothing of an older one); a RECORD of a declared stream is
\* accepted exactly when the validator of the newest declaration accepts
\* it, and a SCHEMA line leaves the pending records pending.
C18_NewestDeclarationOnly ==
  [][ /\ ~ReadsLine => UNCHANGED registry
      /\ (LineStep("SCHEMA") /\ pc' # "error") =>
           \A s \in Streams :
             /\ schemas'[s] = LastSchemaFor(lines_read', s)
             /\ validators'[s] =
                  IF LastSchemaFor(lines_read', s) = ABSENT THEN ABSENT
                  ELSE Draft4Validator(LastSchemaFor(lines_read', s))
             /\ key_properties'[s] = LastKeyPropsFor(lines_read', s)
      /\ ( /\ LineStep("RECORD")
           /\ Last(lines_read').stream # ABSENT
           /\ Last(lines_read').record # ABSENT
           /\ LastSchemaFor(lines_read, Last(lines_read').stream) # ABSENT )
         => ( pc' = "check" <=>
                validate(
                  Draft4Validator(
                    LastSchemaFor(lines_read, Last(lines_read').stream)),
                  Last(lines_read').record) )
      /\ (ReadsLine /\ ~LineStep("SCHEMA")) => UNCHANGED registry
      /\ LineStep("SCHEMA") => (messages' = messages /\ batch_size' = batch_size)
      /\ (EndsInput /\ messages # <<>>) =>
            (Submits /\ Last(submissions').data.messages = messages)
    ]_vars

C18_Witness ==
  /\ pc = "done"
  /\ Len(lines_read) = 4
  /\ lines_read[1].type = "SCHEMA" /\ lines_read[1].schema = "sA"
  /\ lines_read[3].type = "SCHEMA" /\ lines_read[3].schema = "sB"
  /\ lines_read[3].stream = lines_read[1].stream
  /\ lines_read[4].stream = lines_read[1].stream
  /\ SubmittedPayloads(submissions) = <<"r2", "r1">>

\* C19: whenever the next input line is about to be read, batch_size is the
\* length of messages, and right after a threshold flush both are zero.
C19_CounterIsLength ==
  [][ /\ pc = "loop" => batch_size = Len(messages)
      /\ pc' = "loop" => batch_size' = Len(messages')
      /\ (pc = "check" /\ Submits /\ pc' = "loop") =>
            (batch_size' = 0 /\ messages' = <<>>)
    ]_vars

C19_Witness ==
  /\ pc = "loop"
  /\ Len(submissions) = 1
  /\ Len(submissions[1].data.messages) = 2
  /\ batch_size = 0
  /\ messages = <<>>

TypeOK ==
  /\ pc \in {"loop", "check", "returned", "done", "error"}
  /\ Len(lines_read) <= MaxLines
  /\ batch_size \in 0..(MaxBatchSize + 1)
  /\ state \in {None, "b1", "b2"}
====
